---- MODULE Spec2Model ----
(***************************************************************************)
(* Crypto trading-signal dashboard: the signal classifier                  *)
(* (cryptoApi.generateTechnicalSignal), the live signal feed               *)
(* (LiveSignalFeed: generateNewSignals, updateSignalPerformance and their  *)
(* timers, loadSignals), the dashboard's own generateSignals, its market   *)
(* loads (loadCryptos over cryptoApi.getTopCryptocurrencies) and its       *)
(* watchlist (loadUserWatchlist, toggleWatchlist).                         *)
(*                                                                         *)
(* Numbers.  Prices are integers (multiples of 200, so that every          *)
(* target/stop factor used below is exact).  A 24h percentage change is a  *)
(* whole number of percent.  A performance percentage is an exact fraction *)
(* <<n, d>> in lowest terms with d > 0.                                    *)
(***************************************************************************)
EXTENDS Integers, Sequences, FiniteSets, TLC

VARIABLES
    cryptos,      \* Dashboard state `cryptos`, the prop of LiveSignalFeed
    signals,      \* LiveSignalFeed state `signals`
    dashSignals,  \* Dashboard state `signals`
    passes,       \* the calls of updateSignalPerformance that are in flight
    gens,         \* the calls of generateNewSignals that are in flight
    entry,        \* history: signal id -> currentPrice it was created with
    closeNotes,   \* history: signal id -> number of target/stop toasts so far
    toasts,       \* the toasts emitted by the last step
    nextId,       \* next fresh signal id (Date.now() + random suffix)
    dashGens,     \* number of Dashboard.generateSignals calls so far
    now,          \* the clock read by new Date(): the callbacks started so far
    mounted,      \* LiveSignalFeed is mounted (its tab is shown): timers run
    cIn, cOut,    \* classifier harness: input snapshot and returned record
    calls,        \* history: the classifier calls so far, input with result
    picked,       \* selection harness: the candidates each generate selects
    capIn, capOut,\* list-cap harness: [batch, prev] and the list set from it
    api,          \* the getTopCryptocurrencies call of cryptoApi
    signalStats,  \* LiveSignalFeed state `signalStats`
    feedLoads,    \* number of loadSignals calls that have settled
    origin,       \* who started the loadCryptos under way: manual, auto, none
    user,         \* Dashboard state `user` is set
    loading,      \* Dashboard state `loading`: initDashboard has not finished
    watchlist,    \* Dashboard state `watchlist`
    records,      \* the userWatchlist records of the user in the store
    toggles,      \* the toggleWatchlist calls in flight
    nextRecord,   \* next fresh userWatchlist record id
    initPc,       \* loadUserWatchlist: the call under way, or how the last ended
    outcome       \* history: what the last step of a toggleWatchlist call did

\* the watchlist of the dashboard and its store
watch == <<user, loading, watchlist, records, toggles, nextRecord, initPc,
           outcome>>

\* Dashboard state outside the signal tracker, and the statistics of the feed
dash == <<signalStats, feedLoads, origin, watch>>

harness == <<cIn, cOut, calls, picked, capIn, capOut, api, dash>>

trackerVars == <<cryptos, signals, dashSignals, passes, gens, entry,
                 closeNotes, toasts, nextId, dashGens, now, mounted>>

vars == <<trackerVars, harness>>

(***************************************************************************)
(* Bounds of the model.                                                    *)
(***************************************************************************)
MaxCalls == 3       \* retick passes and generateNewSignals calls started
MaxSignals == 2     \* signals minted by generateNewSignals
MaxDashGens == 1    \* Dashboard.generateSignals calls

(***************************************************************************)
(* Values.                                                                 *)
(***************************************************************************)
Prices == {10000, 10800}
Undefined == 0 - 1            \* JS undefined (targetPrice?, stopLoss?)
\* Math.random() as a count of halves (0 is 0.0, 1 is 0.5): the values drawn
\* for a target price and for a stop-loss
TargetDraws == {0, 1}
StopDraws == {1}

Abs(x) == IF x < 0 THEN 0 - x ELSE x
Min(a, b) == IF a < b THEN a ELSE b

RECURSIVE Gcd(_, _)
Gcd(a, b) == IF b = 0 THEN a ELSE Gcd(b, a % b)

\* The number (n / d) * 100 as a fraction in lowest terms, d > 0.
Percent(n, d) ==
    LET g == Gcd(Abs(n * 100), d)
    IN  IF n = 0 THEN <<0, 1>> ELSE <<(n * 100) \div g, d \div g>>

(***************************************************************************)
(* The classifier: cryptoApi.generateTechnicalSignal.                      *)
(***************************************************************************)
StrongBuyPct == 5
BuyPct == 2
StrongSellPct == 5
SellPct == 2
HoldModeratePct == 1

\* volume > marketCap * 0.1
HighVolume(volume, marketCap) == volume * 10 > marketCap

\* a classifier that remembers its previous result
ClassifyWithMemory(crypto) ==
    [signal |-> IF crypto.priceChangePercentage24h > BuyPct THEN "BUY" ELSE "HOLD",
     strength |-> "MODERATE",
     confidence |-> IF cOut.confidence = 70 THEN 60 ELSE 70]

\* the classifier with its second row tested before its first
ClassifyModerateFirst(crypto) ==
    LET priceChange == crypto.priceChangePercentage24h
        volume == crypto.volume24h
        marketCap == crypto.marketCap
    IN  IF priceChange > BuyPct
        THEN [signal |-> "BUY", strength |-> "MODERATE", confidence |-> 70]
        ELSE IF priceChange > StrongBuyPct /\ HighVolume(volume, marketCap)
        THEN [signal |-> "BUY", strength |-> "STRONG", confidence |-> 85]
        ELSE IF priceChange < 0 - StrongSellPct /\ HighVolume(volume, marketCap)
        THEN [signal |-> "SELL", strength |-> "STRONG", confidence |-> 80]
        ELSE IF priceChange < 0 - SellPct
        THEN [signal |-> "SELL", strength |-> "MODERATE", confidence |-> 65]
        ELSE [signal |-> "HOLD",
              strength |-> IF Abs(priceChange) > HoldModeratePct
                           THEN "MODERATE" ELSE "WEAK",
              confidence |-> 60]

\* the classifier without its last branch: the initial values are returned
ClassifyDefaults(crypto) ==
    LET priceChange == crypto.priceChangePercentage24h
        volume == crypto.volume24h
        marketCap == crypto.marketCap
    IN  IF priceChange > StrongBuyPct /\ HighVolume(volume, marketCap)
        THEN [signal |-> "BUY", strength |-> "STRONG", confidence |-> 85]
        ELSE IF priceChange > BuyPct
        THEN [signal |-> "BUY", strength |-> "MODERATE", confidence |-> 70]
        ELSE IF priceChange < 0 - StrongSellPct /\ HighVolume(volume, marketCap)
        THEN [signal |-> "SELL", strength |-> "STRONG", confidence |-> 80]
        ELSE IF priceChange < 0 - SellPct
        THEN [signal |-> "SELL", strength |-> "MODERATE", confidence |-> 65]
        ELSE [signal |-> "HOLD", strength |-> "WEAK", confidence |-> 50]

generateTechnicalSignal(crypto) ==
    LET priceChange == crypto.priceChangePercentage24h
        volume == crypto.volume24h
        marketCap == crypto.marketCap
    IN  IF priceChange > StrongBuyPct /\ HighVolume(volume, marketCap)
        THEN [signal |-> "BUY", strength |-> "STRONG", confidence |-> 85]
        ELSE IF priceChange > BuyPct
        THEN [signal |-> "BUY", strength |-> "MODERATE", confidence |-> 70]
        ELSE IF priceChange < 0 - StrongSellPct /\ HighVolume(volume, marketCap)
        THEN [signal |-> "SELL", strength |-> "STRONG", confidence |-> 80]
        ELSE IF priceChange < 0 - SellPct
        THEN [signal |-> "SELL", strength |-> "MODERATE", confidence |-> 65]
        ELSE [signal |-> "HOLD",
              strength |-> IF Abs(priceChange) > HoldModeratePct
                           THEN "MODERATE" ELSE "WEAK",
              confidence |-> 60]

(***************************************************************************)
(* Market data: what loadCryptos can put into `cryptos`.  The list is in   *)
(* the provider's order (BTC, ETH, ADA).  BTC and ETH each have any price  *)
(* of Prices, ETH may be missing from the list; the 24h change and volume  *)
(* of a symbol are fixed, one symbol for each kind the classifier returns. *)
(***************************************************************************)
Snapshot(sym, price, pct, volume) ==
    [symbol |-> sym, currentPrice |-> price, priceChangePercentage24h |-> pct,
     volume24h |-> volume, marketCap |-> 1000]

Btc(p) == Snapshot("BTC", p, 6, 200)           \* BUY
Eth(p) == Snapshot("ETH", p, 0 - 7, 200)       \* SELL
Ada == Snapshot("ADA", 10000, 1, 50)           \* HOLD

Markets ==
    {<<Btc(b), Ada>> : b \in Prices} \cup
    {<<Btc(b), Eth(e), Ada>> : b \in Prices, e \in Prices}

\* cryptos.find(c => c.symbol === symbol): index of the first match, 0 if none
FindIdx(cs, symbol) ==
    LET S == {i \in 1..Len(cs) : cs[i].symbol = symbol}
    IN  IF S = {} THEN 0 ELSE CHOOSE i \in S : \A j \in S : i <= j

\* loadCryptos: setCryptos(transformedCryptos)
Refresh ==
    /\ \E m \in Markets : cryptos' = m
    /\ toasts' = {}
    /\ UNCHANGED <<signals, dashSignals, passes, gens, entry, closeNotes,
                   nextId, dashGens, now, mounted, harness>>

(***************************************************************************)
(* updateSignalPerformance: the evaluation of one signal against the       *)
(* price found for its symbol (everything between the lookup and the       *)
(* first await of the loop body).                                          *)
(***************************************************************************)
SignificantPct == 5
MovementPct == 2

\* signal.targetPrice && ... : undefined and 0 are falsy
Truthy(x) == x # Undefined /\ x # 0

\* the status chain with the SELL target tested like the BUY target
StatusSellLikeBuy(signal, currentPrice) ==
    IF Truthy(signal.targetPrice) /\ signal.signalType = "BUY"
       /\ currentPrice >= signal.targetPrice
    THEN "hit_target"
    ELSE IF Truthy(signal.targetPrice) /\ signal.signalType = "SELL"
            /\ currentPrice >= signal.targetPrice
    THEN "hit_target"
    ELSE IF Truthy(signal.stopLoss) /\ signal.signalType = "BUY"
            /\ currentPrice <= signal.stopLoss
    THEN "hit_stop_loss"
    ELSE IF Truthy(signal.stopLoss) /\ signal.signalType = "SELL"
            /\ currentPrice >= signal.stopLoss
    THEN "hit_stop_loss"
    ELSE "active"

SignalStatus(signal, currentPrice) ==
    IF Truthy(signal.targetPrice) /\ signal.signalType = "BUY"
       /\ currentPrice >= signal.targetPrice
    THEN "hit_target"
    ELSE IF Truthy(signal.targetPrice) /\ signal.signalType = "SELL"
            /\ currentPrice <= signal.targetPrice
    THEN "hit_target"
    ELSE IF Truthy(signal.stopLoss) /\ signal.signalType = "BUY"
            /\ currentPrice <= signal.stopLoss
    THEN "hit_stop_loss"
    ELSE IF Truthy(signal.stopLoss) /\ signal.signalType = "SELL"
            /\ currentPrice >= signal.stopLoss
    THEN "hit_stop_loss"
    ELSE "active"

\* the performance with every signal that is not a SELL taken as a BUY
PerformanceLong(signal, currentPrice) ==
    LET initialPrice == signal.currentPrice
    IN  IF signal.signalType = "SELL"
        THEN Percent(initialPrice - currentPrice, initialPrice)
        ELSE Percent(currentPrice - initialPrice, initialPrice)

Performance(signal, currentPrice) ==
    LET initialPrice == signal.currentPrice
    IN  IF signal.signalType = "BUY"
        THEN Percent(currentPrice - initialPrice, initialPrice)
        ELSE IF signal.signalType = "SELL"
        THEN Percent(initialPrice - currentPrice, initialPrice)
        ELSE <<0, 1>>

\* Math.abs(performancePercentage) > 5 and
\* Math.abs(performancePercentage - lastPerformance) > 2
SignificantMove(perf, last) ==
    /\ Abs(perf[1]) > SignificantPct * perf[2]
    /\ Abs(perf[1] * last[2] - last[1] * perf[2]) > MovementPct * perf[2] * last[2]

EvalSignal(signal, currentPrice) ==
    LET perf == Performance(signal, currentPrice)
        status == SignalStatus(signal, currentPrice)
        isActive == (status = "active")
        \* shouldNotify = signal.isActive
        closing == IF status = "active" \/ ~signal.isActive THEN {}
                   ELSE {[kind |-> status, id |-> signal.id]}
        moving == IF isActive /\ SignificantMove(perf, signal.performancePercentage)
                  THEN {[kind |-> "movement", id |-> signal.id]}
                  ELSE {}
    IN  [id |-> signal.id, currentPrice |-> currentPrice,
         performancePercentage |-> perf, isActive |-> isActive,
         status |-> status, toasts |-> closing \cup moving]

\* What a call keeps of the render it was created in: of `signals`, the
\* active ones with the fields the loop reads; of `cryptos`, symbol and price.
SignalView(s) ==
    [id |-> s.id, symbol |-> s.symbol, signalType |-> s.signalType,
     currentPrice |-> s.currentPrice, targetPrice |-> s.targetPrice,
     stopLoss |-> s.stopLoss, isActive |-> s.isActive,
     performancePercentage |-> s.performancePercentage]

ActiveViews(list) ==
    LET active == SelectSeq(list, LAMBDA s : s.isActive)
    IN  [i \in 1..Len(active) |-> SignalView(active[i])]

PriceView(cs) ==
    [i \in 1..Len(cs) |-> [symbol |-> cs[i].symbol,
                           currentPrice |-> cs[i].currentPrice]]

\* the loop with `break` for `continue`: it ends at a signal whose symbol is
\* not found
StopAtAbsent(queue, cs) ==
    IF queue = <<>> \/ FindIdx(cs, Head(queue).symbol) = 0 THEN <<>> ELSE queue

\* `if (!crypto) continue`: the rest of the loop from its next signal whose
\* symbol is found; empty when the loop is over
SkipAbsent(queue, cs) ==
    LET S == {j \in 1..Len(queue) : FindIdx(cs, queue[j].symbol) # 0}
    IN  IF S = {} THEN <<>>
        ELSE SubSeq(queue, CHOOSE j \in S : \A k \in S : j <= k, Len(queue))

PriceOf(cs, symbol) == cs[FindIdx(cs, symbol)].currentPrice

\* A pass in flight is suspended in the writes for the head of its queue.
Pending(pass) ==
    EvalSignal(Head(pass.queue), PriceOf(pass.cs, Head(pass.queue).symbol))

\* the toasts of the loop body that has just run for the head of `queue`
ToastsOf(queue, cs) ==
    IF queue = <<>> THEN {}
    ELSE EvalSignal(Head(queue), PriceOf(cs, Head(queue).symbol)).toasts

NotesOf(id) == IF id \in DOMAIN closeNotes THEN closeNotes[id] ELSE 0

CloseNoted(ts) ==
    LET ids == {t.id : t \in {u \in ts : u.kind \in {"hit_target", "hit_stop_loss"}}}
    IN  [i \in DOMAIN closeNotes \cup ids |->
            IF i \in ids THEN NotesOf(i) + 1 ELSE NotesOf(i)]

Remove(seq, k) == SubSeq(seq, 1, k - 1) \o SubSeq(seq, k + 1, Len(seq))

\* a retick timer (15 s or 5 s) fires: updateSignalPerformance of the current
\* render runs up to its first await, or to its end when no symbol is found
RetickStart ==
    /\ mounted
    /\ now < MaxCalls
    /\ signals # <<>> /\ cryptos # <<>>
    /\ LET cs == PriceView(cryptos)
           queue == SkipAbsent(ActiveViews(signals), cs)
       IN  /\ passes' = IF queue = <<>> THEN passes
                        ELSE Append(passes, [queue |-> queue, cs |-> cs])
           /\ toasts' = ToastsOf(queue, cs)
           /\ closeNotes' = CloseNoted(ToastsOf(queue, cs))
    /\ now' = now + 1
    /\ UNCHANGED <<cryptos, signals, dashSignals, gens, entry, nextId,
                   dashGens, mounted, harness>>

\* setSignals of LiveSignalFeed: a state update of a component that has been
\* unmounted is dropped
SetSignals(list) == IF mounted THEN list ELSE signals

\* the tab of the live feed is left: the component unmounts and the cleanups
\* of its effects clear the 15 s, 5 s and 180 s timers
Unmount ==
    /\ mounted
    /\ mounted' = FALSE
    /\ toasts' = {}
    /\ UNCHANGED <<cryptos, signals, dashSignals, passes, gens, entry,
                   closeNotes, nextId, dashGens, now, harness>>

\* setSignals(prev => prev.map(s => s.id === signal.id ? {...s, ...} : s))
ApplyUpdate(list, upd, time) ==
    [i \in 1..Len(list) |->
        IF list[i].id = upd.id
        THEN [list[i] EXCEPT !.currentPrice = upd.currentPrice,
                             !.performancePercentage = upd.performancePercentage,
                             !.isActive = upd.isActive,
                             !.updatedAt = time]
        ELSE list[i]]

\* both writes of the loop body succeed: the local state is updated and the
\* loop goes on to its next await, or ends
RetickWriteOk(k) ==
    /\ k \in 1..Len(passes)
    /\ signals' = SetSignals(ApplyUpdate(signals, Pending(passes[k]), now))
    /\ LET cs == passes[k].cs
           queue == SkipAbsent(Tail(passes[k].queue), cs)
       IN  /\ passes' = IF queue = <<>> THEN Remove(passes, k)
                        ELSE [passes EXCEPT ![k].queue = queue]
           /\ toasts' = ToastsOf(queue, cs)
           /\ closeNotes' = CloseNoted(ToastsOf(queue, cs))
    /\ UNCHANGED <<cryptos, dashSignals, gens, entry, nextId, dashGens, now,
                   mounted, harness>>

\* recentSignals.update or signalUpdates.create rejects: the catch around the
\* whole loop ends the pass
RetickWriteFails(k) ==
    /\ k \in 1..Len(passes)
    /\ passes' = Remove(passes, k)
    /\ toasts' = {}
    /\ UNCHANGED <<cryptos, signals, dashSignals, gens, entry, closeNotes,
                   nextId, dashGens, now, mounted, harness>>

(***************************************************************************)
(* generateNewSignals (live feed).                                         *)
(***************************************************************************)
TopCount == 6
FeedCap == 20

\* x goes behind every element whose |change| is not larger: an ascending sort
InsertAscending(x, sorted) ==
    LET keep == {i \in 1..Len(sorted) :
                    Abs(sorted[i].priceChangePercentage24h)
                        <= Abs(x.priceChangePercentage24h)}
        n == Cardinality(keep)
    IN  SubSeq(sorted, 1, n) \o <<x>> \o SubSeq(sorted, n + 1, Len(sorted))

\* x goes behind every element whose |change| is not smaller: a stable
\* descending sort, as Array.prototype.sort with the comparator of the code
InsertByAbsChange(x, sorted) ==
    LET keep == {i \in 1..Len(sorted) :
                    Abs(sorted[i].priceChangePercentage24h)
                        >= Abs(x.priceChangePercentage24h)}
        n == Cardinality(keep)
    IN  SubSeq(sorted, 1, n) \o <<x>> \o SubSeq(sorted, n + 1, Len(sorted))

RECURSIVE SortByAbsChange(_)
SortByAbsChange(cs) ==
    IF cs = <<>> THEN <<>>
    ELSE InsertByAbsChange(cs[Len(cs)], SortByAbsChange(SubSeq(cs, 1, Len(cs) - 1)))

Take(list, n) == SubSeq(list, 1, Min(n, Len(list)))

\* the target with the two factors exchanged
LiveTargetMirrored(kind, price, h) ==
    IF kind = "BUY" THEN (price * (97 - 6 * h)) \div 100
    ELSE (price * (103 + 6 * h)) \div 100

\* targetPrice and stopLoss of the live feed, Math.random() = h / 2
LiveTarget(kind, price, h) ==
    IF kind = "BUY" THEN (price * (103 + 6 * h)) \div 100
    ELSE (price * (97 - 6 * h)) \div 100

LiveStop(kind, price, h) ==
    IF kind = "BUY" THEN (price * (98 - 3 * h)) \div 100
    ELSE (price * (102 + 3 * h)) \div 100

LiveSignal(id, crypto, hT, hS, time) ==
    LET tech == generateTechnicalSignal(crypto)
    IN  [id |-> id, symbol |-> crypto.symbol, signalType |-> tech.signal,
         strength |-> tech.strength, confidenceScore |-> tech.confidence,
         currentPrice |-> crypto.currentPrice,
         targetPrice |-> LiveTarget(tech.signal, crypto.currentPrice, hT),
         stopLoss |-> LiveStop(tech.signal, crypto.currentPrice, hS),
         createdAt |-> time, isActive |-> TRUE,
         performancePercentage |-> <<0, 1>>, updatedAt |-> time]

\* the loop without its HOLD test
SkipNothing(crypto) == FALSE

\* `if (technicalSignal.signal === 'HOLD') continue`
SkipCandidate(crypto) == generateTechnicalSignal(crypto).signal = "HOLD"

\* the rest of the loop from its next candidate that is not skipped; empty
\* when the loop is over
SkipHolds(top) ==
    LET S == {j \in 1..Len(top) : ~SkipCandidate(top[j])}
    IN  IF S = {} THEN <<>>
        ELSE SubSeq(top, CHOOSE j \in S : \A k \in S : j <= k, Len(top))

\* the candidates a call mints a signal for
Minted(top) == SelectSeq(top, LAMBDA c : ~SkipCandidate(c))

\* cryptos.sort(...).slice(0, 6)
LiveCandidates(cs) == Take(SortByAbsChange(cs), TopCount)

\* setSignals(prev => [...newSignals, ...prev].slice(0, 20))
Prepend(newSignals, prev, cap) == Take(newSignals \o prev, cap)

\* A call in flight is suspended in recentSignals.create for `pending`, the
\* signal made from the head of `top`.  The loop from `top` on either ends
\* (top is empty) with the setSignals call, or suspends for its head.
GenStep(rest, top, newSignals) ==
    IF top = <<>>
    THEN /\ gens' = rest
         /\ signals' = SetSignals(Prepend(newSignals, signals, FeedCap))
         /\ toasts' = {[kind |-> "generated", count |-> Len(newSignals)]}
         /\ UNCHANGED <<nextId, entry>>
    ELSE /\ \E hT \in TargetDraws, hS \in StopDraws :
               gens' = Append(rest,
                           [top |-> top, newSignals |-> newSignals,
                            pending |-> LiveSignal(nextId, Head(top), hT, hS, now')])
         /\ nextId' = nextId + 1
         /\ entry' = entry @@ (nextId :> Head(top).currentPrice)
         /\ toasts' = {}
         /\ UNCHANGED signals

\* the Generate button or the 180 s timer: generateNewSignals of the current
\* render sorts the cryptos array in place and runs up to its first await
GenStart ==
    /\ mounted
    /\ now < MaxCalls
    /\ cryptos # <<>>
    /\ now' = now + 1
    /\ cryptos' = SortByAbsChange(cryptos)
    /\ nextId + Len(Minted(Take(cryptos', TopCount))) - 1 <= MaxSignals
    /\ GenStep(gens, SkipHolds(Take(cryptos', TopCount)), <<>>)
    /\ UNCHANGED <<dashSignals, passes, closeNotes, dashGens, mounted, harness>>

GenWriteOk(g) ==
    /\ g \in 1..Len(gens)
    /\ UNCHANGED <<cryptos, dashSignals, passes, closeNotes, dashGens, now,
                   mounted, harness>>
    /\ GenStep(Remove(gens, g), SkipHolds(Tail(gens[g].top)),
               Append(gens[g].newSignals, gens[g].pending))

\* recentSignals.create rejects: the catch around the loop drops the batch
GenWriteFails(g) ==
    /\ g \in 1..Len(gens)
    /\ gens' = Remove(gens, g)
    /\ toasts' = {[kind |-> "generate_failed", count |-> 0]}
    /\ UNCHANGED <<cryptos, signals, dashSignals, passes, entry, closeNotes,
                   nextId, dashGens, now, mounted, harness>>

(***************************************************************************)
(* Dashboard.generateSignals.  Its awaited writes sit in a try/catch of    *)
(* their own and nothing they touch is read by the rest of the function,   *)
(* whose only state update is the functional setSignals at its end: the    *)
(* call is one step.                                                       *)
(***************************************************************************)
DashTop == 8
DashCount == 5
DashCap == 15

\* Math.random() of the dashboard's target and stop-loss, in tenths
DashTargetDraws == {0, 9}
DashStopDraws == {5}

\* the target without the HOLD case: a two-way choice as in the live feed
DashTargetTwoWay(kind, price, h) ==
    IF kind = "BUY" THEN (price * (1050 + 15 * h)) \div 1000
    ELSE (price * (950 - 15 * h)) \div 1000

\* targetPrice and stopLoss of the dashboard, Math.random() = h / 10
DashTarget(kind, price, h) ==
    IF kind = "BUY" THEN (price * (1050 + 15 * h)) \div 1000
    ELSE IF kind = "SELL" THEN (price * (950 - 15 * h)) \div 1000
    ELSE Undefined

DashStop(kind, price, h) ==
    IF kind = "BUY" THEN (price * (980 - 8 * h)) \div 1000
    ELSE IF kind = "SELL" THEN (price * (1020 + 8 * h)) \div 1000
    ELSE Undefined

DashSignal(id, crypto, hT, hS, time) ==
    LET tech == generateTechnicalSignal(crypto)
    IN  [id |-> id, symbol |-> crypto.symbol, signalType |-> tech.signal,
         strength |-> tech.strength, confidenceScore |-> tech.confidence,
         currentPrice |-> crypto.currentPrice,
         targetPrice |-> DashTarget(tech.signal, crypto.currentPrice, hT),
         stopLoss |-> DashStop(tech.signal, crypto.currentPrice, hS),
         createdAt |-> time]

\* cryptos.slice(0, 8) and the loop over its first min(5, length) elements
DashCandidates(cs) == Take(Take(cs, DashTop), DashCount)

generateSignals ==
    /\ dashGens < MaxDashGens
    /\ dashGens' = dashGens + 1
    /\ now' = now + 1
    /\ LET topCryptos == DashCandidates(cryptos)
           n == Len(topCryptos)
       IN  /\ \E h \in [1..n -> DashTargetDraws \X DashStopDraws] :
                 dashSignals' =
                     Prepend([i \in 1..n |->
                                 DashSignal(nextId + i - 1, topCryptos[i],
                                            h[i][1], h[i][2], now')],
                             dashSignals, DashCap)
           /\ nextId' = nextId + n
           /\ toasts' = {[kind |-> "generated", count |-> n]}
    /\ UNCHANGED <<cryptos, signals, passes, gens, entry, closeNotes, mounted, harness>>

(***************************************************************************)
(* cryptoApi.getTopCryptocurrencies and fetchWithRetry.  A list returned   *)
(* by the API is kept as its length; `api` is the one call under way:      *)
(* pc is "fetch" while it awaits fetch(url), "wait" while it awaits the    *)
(* backoff timer, "done" when it has returned.  attempts and waits count   *)
(* the fetches and the backoff delays (ms) of the current fetchWithRetry   *)
(* call; fetched lists the pages that have been added to results.          *)
(***************************************************************************)
Retries == 3
BackoffMs == 1000
SinglePageMax == 250
PerPage == 250

\* the limits a call is made with (Dashboard calls with 20)
Limits == {1, 20, 250, 251, 500, 501}

\* a sample with no assets
EmptySample == <<>>

getFallbackData == <<"bitcoin", "ethereum", "binancecoin", "solana", "cardano">>

RECURSIVE Pow2(_)
Pow2(n) == IF n = 0 THEN 1 ELSE 2 * Pow2(n - 1)

\* the same delay before every retry
FlatBackoff(i) == BackoffMs

\* Math.pow(2, i) * 1000
Backoff(i) == Pow2(i) * BackoffMs

\* `if (i === retries - 1) throw error`
LastAttempt(i) == i = Retries - 1

\* Math.ceil(limit / perPage)
Ceil(n, d) == (n + d - 1) \div d

\* per_page of the url of the current request
PageSize(limit) == IF limit <= SinglePageMax THEN limit ELSE PerPage

\* the lengths of the array a successful response may hold
Responses(limit) == {0, PageSize(limit) \div 2, PageSize(limit)}

NoReturn == [source |-> "none", length |-> 0]

Idle == [pc |-> "idle", limit |-> 0, pages |-> 0, page |-> 0, i |-> 0,
         attempts |-> 0, waits |-> <<>>, results |-> 0, fetched |-> <<>>,
         ret |-> NoReturn]

exceptApi == <<trackerVars, cIn, cOut, calls, picked, capIn, capOut, dash>>

\* getTopCryptocurrencies(limit) runs up to the first await of fetchWithRetry
ApiCall ==
    /\ api.pc = "idle"
    /\ \E limit \in Limits :
          api' = [Idle EXCEPT !.pc = "fetch", !.limit = limit, !.page = 1,
                              !.pages = IF limit <= SinglePageMax THEN 1
                                        ELSE Ceil(limit, PerPage)]
    /\ UNCHANGED exceptApi

\* the response is ok and its body parses: fetchWithRetry returns it
FetchOk ==
    /\ api.pc = "fetch"
    /\ \E n \in Responses(api.limit) :
          LET results == api.results + n
              got == [api EXCEPT !.attempts = @ + 1, !.results = results,
                                 !.fetched = Append(@, api.page)]
          IN  api' =
                IF api.limit <= SinglePageMax
                THEN [got EXCEPT !.pc = "done",
                                 !.ret = [source |-> "api", length |-> n]]
                ELSE IF results >= api.limit \/ api.page = api.pages
                THEN [got EXCEPT !.pc = "done",
                                 !.ret = [source |-> "api",
                                          length |-> Min(results, api.limit)]]
                ELSE [got EXCEPT !.page = @ + 1, !.i = 0, !.attempts = 0,
                                 !.waits = <<>>]
    /\ UNCHANGED exceptApi

\* fetch rejects, the status is not ok, or the body does not parse: the last
\* attempt rethrows to getTopCryptocurrencies, whose catch returns the
\* sample; an earlier one starts the backoff timer
FetchFails ==
    /\ api.pc = "fetch"
    /\ api' = IF LastAttempt(api.i)
              THEN [api EXCEPT !.attempts = @ + 1, !.pc = "done",
                               !.ret = [source |-> "fallback",
                                        length |-> Len(getFallbackData)]]
              ELSE [api EXCEPT !.attempts = @ + 1, !.pc = "wait",
                               !.waits = Append(@, Backoff(api.i))]
    /\ UNCHANGED exceptApi

\* the backoff timer fires: the next iteration of the for loop
BackoffDone ==
    /\ api.pc = "wait"
    /\ api' = [api EXCEPT !.i = @ + 1, !.pc = "fetch"]
    /\ UNCHANGED exceptApi

\* the caller has taken the returned list
ApiReturn ==
    /\ api.pc = "done"
    /\ api' = Idle
    /\ UNCHANGED exceptApi

ApiStep == FetchOk \/ FetchFails \/ BackoffDone

(***************************************************************************)
(* The selection of candidates on its own: what generateNewSignals and     *)
(* generateSignals pick from a snapshot list.  The snapshots of a list     *)
(* carry their position as symbol.                                         *)
(***************************************************************************)
SelectLen == {5, 7}

\* BUY/STRONG/85, SELL/MODERATE/65 and HOLD/60
SelectKinds ==
    {[priceChangePercentage24h |-> 6, volume24h |-> 200],
     [priceChangePercentage24h |-> 0 - 7, volume24h |-> 50],
     [priceChangePercentage24h |-> 1, volume24h |-> 50]}

SelectLists ==
    UNION {{[i \in 1..n |->
                Snapshot(i, 10000, k[i].priceChangePercentage24h, k[i].volume24h)] :
            k \in [1..n -> SelectKinds]} : n \in SelectLen}

Select ==
    /\ picked = <<>>
    /\ \E l \in SelectLists :
          picked' = [list |-> l,
                     live |-> Minted(LiveCandidates(l)),
                     dash |-> DashCandidates(l)]
    /\ UNCHANGED <<trackerVars, cIn, cOut, calls, capIn, capOut, api, dash>>

(***************************************************************************)
(* The cap of a signal list on its own: setSignals(prev => [...newSignals, *)
(* ...prev].slice(0, cap)) on the lists the program builds.  A signal is   *)
(* kept as its creation stamp.  A list is what loadSignals returned (m     *)
(* signals, newest first, as the query orders them) under k batches of b   *)
(* signals each that generate calls have put in front of it, the latest    *)
(* batch first and every batch in the order of its pushes, oldest first.   *)
(***************************************************************************)
BatchSizes == {1, 2, 3, 5}
LoadedSizes == {0, 1, 2}
NewSizes == {1, 2, 3}
ListLengths == 14..22

Stamp(t) == [id |-> t, createdAt |-> t]

History(b, k, m) ==
    [p \in 1..(k * b + m) |->
        IF p <= k * b
        THEN Stamp(m + (k - 1 - ((p - 1) \div b)) * b + ((p - 1) % b) + 1)
        ELSE Stamp(m - (p - k * b) + 1)]

\* the batch a generate call has pushed, made after everything in the list
NewBatch(n, last) == [i \in 1..n |-> Stamp(last + i)]

ApplyCap ==
    /\ capIn = <<>>
    /\ \E b \in BatchSizes, m \in LoadedSizes, n \in NewSizes, k \in 0..22,
          cap \in {FeedCap, DashCap} :
          /\ k * b + m \in ListLengths
          /\ LET prev == Take(History(b, k, m), cap)
                 batch == NewBatch(n, k * b + m)
             IN  /\ capIn' = [batch |-> batch, prev |-> prev, cap |-> cap]
                 /\ capOut' = Prepend(batch, prev, cap)
    /\ UNCHANGED <<trackerVars, cIn, cOut, calls, picked, api, dash>>

(***************************************************************************)
(* The classifier on its own: one call on any snapshot of a grid.          *)
(***************************************************************************)
ClassifyInputs ==
    {[priceChangePercentage24h |-> c, volume24h |-> v, marketCap |-> m] :
        c \in (0 - 7)..7, v \in {50, 100, 101, 200}, m \in {1000, 2000}}

NoResult == [signal |-> "none", strength |-> "none", confidence |-> 0]

Classify ==
    /\ cOut = NoResult
    /\ cOut' = generateTechnicalSignal(cIn)
    /\ UNCHANGED <<trackerVars, cIn, calls, picked, capIn, capOut, api, dash>>

\* the three fields of a snapshot that the classifier reads
ClassifierInput(crypto) ==
    [priceChangePercentage24h |-> crypto.priceChangePercentage24h,
     volume24h |-> crypto.volume24h, marketCap |-> crypto.marketCap]

\* a call on a snapshot of the current list, as generateNewSignals and
\* generateSignals make it; the call is recorded with the snapshot's price
ClassifyCall ==
    /\ \E i \in 1..Len(cryptos) :
          /\ cIn' = ClassifierInput(cryptos[i])
          /\ cOut' = generateTechnicalSignal(cryptos[i])
          /\ calls' = calls \cup {[in |-> cIn', out |-> cOut',
                                   price |-> cryptos[i].currentPrice]}
    /\ UNCHANGED <<trackerVars, picked, capIn, capOut, api, dash>>

(***************************************************************************)
(* Dashboard.loadCryptos as started by refreshData (the Refresh button)    *)
(* and by the 60 s timer.  The request is the getTopCryptocurrencies call  *)
(* of `api`; one load is under way at a time.                              *)
(***************************************************************************)
DashLimit == 20

\* the sample as loadCryptos transforms it: symbols in upper case; prices in
\* whole dollars and changes in whole percent
FallbackCryptos ==
    <<Snapshot("BTC", 43250, 1, 50), Snapshot("ETH", 2650, 1, 50),
      Snapshot("BNB", 316, 1, 50), Snapshot("SOL", 99, 3, 50),
      Snapshot("ADA", 1, 2, 50)>>

\* what setCryptos receives for the list getTopCryptocurrencies returned
LoadedCryptos(ret) ==
    IF ret.source = "fallback" THEN {FallbackCryptos}
    ELSE IF ret.length = 0 THEN {<<>>}
    ELSE Markets

\* loadCryptos rejects: its try block has no statement that throws once a
\* list is returned, and its catch ends without rethrowing
LoadRejects(ret) == FALSE

StartLoad(who) ==
    /\ origin = "none"
    /\ api.pc = "idle"
    /\ origin' = who
    /\ api' = [Idle EXCEPT !.pc = "fetch", !.limit = DashLimit, !.page = 1,
                           !.pages = 1]
    /\ toasts' = {}
    /\ UNCHANGED <<cryptos, signals, dashSignals, passes, gens, entry,
                   closeNotes, nextId, dashGens, now, mounted, cIn, cOut,
                   calls, picked, capIn, capOut, signalStats, feedLoads, watch>>

\* refreshData up to `await loadCryptos()`
refreshData == StartLoad("manual")

\* the callback of the 60 s interval up to `await loadCryptos()`
autoRefresh == StartLoad("auto")

\* loadCryptos settles and its caller goes on: the toast of its try block, or
\* of its catch; cryptos.length is of the render the caller was created in
LoadCryptosDone ==
    /\ origin # "none"
    /\ api.pc = "done"
    /\ \E list \in LoadedCryptos(api.ret) : cryptos' = list
    /\ toasts' =
          IF LoadRejects(api.ret)
          THEN {[kind |-> IF origin = "manual" THEN "refresh_failed"
                          ELSE "auto_refresh_failed",
                 count |-> 0]}
          ELSE {[kind |-> IF origin = "manual" THEN "manual_refresh"
                          ELSE "live_update",
                 count |-> Len(cryptos)]}
    /\ api' = Idle
    /\ origin' = "none"
    /\ UNCHANGED <<signals, dashSignals, passes, gens, entry, closeNotes,
                   nextId, dashGens, now, mounted, cIn, cOut, calls, picked,
                   capIn, capOut, signalStats, feedLoads, watch>>

(***************************************************************************)
(* The watchlist of the dashboard: loadUserWatchlist and toggleWatchlist.  *)
(* A userWatchlist record is [id, symbol]; a toggleWatchlist call in flight *)
(* is suspended in the persistence call its pc names (list, delete, create) *)
(* and holds the symbol it was called with and the record it listed.  One  *)
(* loadUserWatchlist is under way at a time.                               *)
(***************************************************************************)
MaxToggles == 2     \* toggleWatchlist calls in flight
MaxRecords == 2     \* userWatchlist records created

WatchSymbols == {"BTC", "ETH"}

\* the records of the user when the dashboard is opened
StoredWatch == {{}, {[id |-> 0, symbol |-> "ETH"]}}

\* everything but the toasts and the watchlist
exceptWatch == <<cryptos, signals, dashSignals, passes, gens, entry,
                 closeNotes, nextId, dashGens, now, mounted, cIn, cOut, calls,
                 picked, capIn, capOut, api, signalStats, feedLoads, origin>>

\* watchlist.includes(symbol)
Includes(list, symbol) == \E i \in 1..Len(list) : list[i] = symbol

\* prev.filter(s => s !== symbol)
Without(list, symbol) == SelectSeq(list, LAMBDA x : x # symbol)

\* the records a list call returns, in the order of their creation
RECURSIVE Listed(_)
Listed(recs) ==
    IF recs = {} THEN <<>>
    ELSE LET first == CHOOSE r \in recs : \A q \in recs : r.id <= q.id
         IN  <<first>> \o Listed(recs \ {first})

\* userWatchlist.list({where: {AND: [{userId}, {symbol}]}})
Existing(symbol) == Listed({r \in records : r.symbol = symbol})

\* watchlistResult.map(item => item.symbol)
SymbolsOf(list) == [i \in 1..Len(list) |-> list[i].symbol]

\* initDashboard of the mount effect, which runs again when loadCryptos or
\* cryptos.length change: loadUserWatchlist up to `await blink.auth.me()`
initDashboard ==
    /\ initPc \in {"idle", "loaded", "failed"}
    /\ initPc' = "me"
    /\ toasts' = {}
    /\ UNCHANGED <<exceptWatch, user, loading, watchlist, records, toggles,
                   nextRecord, outcome>>

\* auth.me() resolves: setUser(currentUser), then the list call
MeOk ==
    /\ initPc = "me"
    /\ user' = TRUE
    /\ initPc' = "list"
    /\ toasts' = {}
    /\ UNCHANGED <<exceptWatch, loading, watchlist, records, toggles,
                   nextRecord, outcome>>

\* the list call resolves: setWatchlist(symbols); initDashboard goes on to
\* setLoading(false)
WatchListOk ==
    /\ initPc = "list"
    /\ watchlist' = SymbolsOf(Listed(records))
    /\ loading' = FALSE
    /\ initPc' = "loaded"
    /\ toasts' = {}
    /\ UNCHANGED <<exceptWatch, user, records, toggles, nextRecord, outcome>>

\* auth.me() or the list call rejects: the catch of loadUserWatchlist logs,
\* and initDashboard goes on to setLoading(false)
WatchLoadFails ==
    /\ initPc \in {"me", "list"}
    /\ loading' = FALSE
    /\ initPc' = "failed"
    /\ toasts' = {}
    /\ UNCHANGED <<exceptWatch, user, watchlist, records, toggles, nextRecord,
                   outcome>>

\* the toast of the catch block of toggleWatchlist
ToggleCatchSilent == {}

ToggleCatch == {[kind |-> "watchlist_failed", id |-> 0]}

\* a watch button is pressed (the dashboard is rendered once loading is
\* false): toggleWatchlist(symbol) runs up to its first await
toggleWatchlist(symbol) ==
    /\ ~loading
    /\ Len(toggles) < MaxToggles
    /\ IF ~user
       THEN /\ outcome' = "returned"
            /\ UNCHANGED toggles
       ELSE IF Includes(watchlist, symbol)
       THEN /\ toggles' = Append(toggles, [symbol |-> symbol, pc |-> "list",
                                           existing |-> 0])
            /\ outcome' = "listing"
       ELSE /\ toggles' = Append(toggles, [symbol |-> symbol, pc |-> "create",
                                           existing |-> 0])
            /\ outcome' = "creating"
    /\ toasts' = {}
    /\ UNCHANGED <<exceptWatch, user, loading, watchlist, records, nextRecord,
                   initPc>>

\* the list call of the removal resolves: with a record, the delete call is
\* made for the first; without, the symbol is removed from the watchlist
ToggleListOk(k) ==
    /\ k \in 1..Len(toggles)
    /\ toggles[k].pc = "list"
    /\ LET existing == Existing(toggles[k].symbol)
       IN  IF Len(existing) > 0
           THEN /\ toggles' = [toggles EXCEPT ![k].pc = "delete",
                                              ![k].existing = existing[1].id]
                /\ outcome' = "deleting"
                /\ toasts' = {}
                /\ UNCHANGED watchlist
           ELSE /\ toggles' = Remove(toggles, k)
                /\ watchlist' = Without(watchlist, toggles[k].symbol)
                /\ outcome' = "removed"
                /\ toasts' = {[kind |-> "watch_removed", id |-> 0]}
    /\ UNCHANGED <<exceptWatch, user, loading, records, nextRecord, initPc>>

\* the delete call resolves
ToggleDeleteOk(k) ==
    /\ k \in 1..Len(toggles)
    /\ toggles[k].pc = "delete"
    /\ records' = {r \in records : r.id # toggles[k].existing}
    /\ watchlist' = Without(watchlist, toggles[k].symbol)
    /\ toggles' = Remove(toggles, k)
    /\ outcome' = "removed"
    /\ toasts' = {[kind |-> "watch_removed", id |-> 0]}
    /\ UNCHANGED <<exceptWatch, user, loading, nextRecord, initPc>>

\* the create call resolves
ToggleCreateOk(k) ==
    /\ k \in 1..Len(toggles)
    /\ toggles[k].pc = "create"
    /\ nextRecord <= MaxRecords
    /\ records' = records \cup {[id |-> nextRecord, symbol |-> toggles[k].symbol]}
    /\ nextRecord' = nextRecord + 1
    /\ watchlist' = Append(watchlist, toggles[k].symbol)
    /\ toggles' = Remove(toggles, k)
    /\ outcome' = "added"
    /\ toasts' = {[kind |-> "watch_added", id |-> 0]}
    /\ UNCHANGED <<exceptWatch, user, loading, initPc>>

\* the persistence call the toggle awaits (list, delete or create) rejects
ToggleFails(k) ==
    /\ k \in 1..Len(toggles)
    /\ toggles' = Remove(toggles, k)
    /\ outcome' = "failed"
    /\ toasts' = ToggleCatch
    /\ UNCHANGED <<exceptWatch, user, loading, watchlist, records, nextRecord,
                   initPc>>

(***************************************************************************)
(* loadSignals: the rows of recentSignals become the list of the feed and  *)
(* the statistics shown above it.  A row holds isActive as 0 or 1 and its  *)
(* performance as a fraction, <<0, 0>> for a null column.                  *)
(***************************************************************************)
MaxLoads == 1

NoPerformance == <<0, 0>>

Row(id, symbol, kind, target, stop, active, perf) ==
    [id |-> id, symbol |-> symbol, signalType |-> kind,
     strength |-> "MODERATE", confidenceScore |-> 60,
     currentPrice |-> 10000, targetPrice |-> target, stopLoss |-> stop,
     isActive |-> active, performancePercentage |-> perf,
     createdAt |-> 0, updatedAt |-> 0]

\* rows of earlier sessions: an open HOLD on BTC, with or without target and
\* stop-loss, and a closed SELL on ETH
HoldRows ==
    {Row(101, "BTC", "HOLD", Undefined, Undefined, 1, NoPerformance),
     Row(101, "BTC", "HOLD", 10300, 9700, 1, NoPerformance)}

ClosedRow == Row(102, "ETH", "SELL", 9700, 10500, 0, <<3, 1>>)

StoredLists ==
    {<<>>} \cup {<<h>> : h \in HoldRows} \cup {<<h, ClosedRow>> : h \in HoldRows}

\* isActive: Number(signal.isActive) > 0,
\* performancePercentage: signal.performancePercentage || 0
Transform(row) ==
    [row EXCEPT !.isActive = (row.isActive > 0),
                !.performancePercentage =
                    IF row.performancePercentage[1] = 0 THEN <<0, 1>>
                    ELSE row.performancePercentage]

\* a / b as a fraction in lowest terms, b > 0
Frac(a, b) ==
    LET g == Gcd(Abs(a), b)
    IN  IF a = 0 THEN <<0, 1>> ELSE <<a \div g, b \div g>>

\* reduce((sum, s) => sum + s.performancePercentage, 0) over list[1..n]
RECURSIVE SumPerformance(_, _)
SumPerformance(list, n) ==
    IF n = 0 THEN <<0, 1>>
    ELSE LET sum == SumPerformance(list, n - 1)
             p == list[n].performancePercentage
         IN  Frac(sum[1] * p[2] + p[1] * sum[2], sum[2] * p[2])

NoStats == [total |-> 0, active |-> 0, profitable |-> 0,
            avgPerformance |-> <<0, 1>>]

Stats(list) ==
    LET sum == SumPerformance(list, Len(list))
    IN  [total |-> Len(list),
         active |-> Len(SelectSeq(list, LAMBDA x : x.isActive)),
         profitable |-> Len(SelectSeq(list,
                            LAMBDA x : x.performancePercentage[1] > 0)),
         avgPerformance |-> IF Len(list) > 0
                            THEN Frac(sum[1], sum[2] * Len(list))
                            ELSE <<0, 1>>]

\* the list call of the mount effect settles, before this session has
\* created a row: with rows, or rejected (the catch only logs)
loadSignals ==
    /\ mounted
    /\ feedLoads < MaxLoads
    /\ nextId = 1
    /\ \/ \E rows \in StoredLists :
             LET transformedSignals == [i \in 1..Len(rows) |-> Transform(rows[i])]
             IN  /\ signals' = SetSignals(transformedSignals)
                 /\ signalStats' = Stats(transformedSignals)
       \/ UNCHANGED <<signals, signalStats>>
    /\ feedLoads' = feedLoads + 1
    /\ toasts' = {}
    /\ UNCHANGED <<cryptos, dashSignals, passes, gens, entry, closeNotes,
                   nextId, dashGens, now, mounted, cIn, cOut, calls, picked,
                   capIn, capOut, api, origin, watch>>

(***************************************************************************)
(* Specifications.                                                         *)
(***************************************************************************)
InitTracker ==
    /\ cryptos = <<>>
    /\ signals = <<>>
    /\ dashSignals = <<>>
    /\ passes = <<>>
    /\ gens = <<>>
    /\ entry = <<>>
    /\ closeNotes = <<>>
    /\ toasts = {}
    /\ nextId = 1
    /\ dashGens = 0
    /\ now = 0
    /\ mounted = TRUE

\* the harness variables at rest
InitClassifier ==
    /\ cIn = [priceChangePercentage24h |-> 0, volume24h |-> 50, marketCap |-> 1000]
    /\ cOut = NoResult
    /\ calls = {}

InitSelect == picked = <<>>

InitCap == capIn = <<>> /\ capOut = <<>>

InitApi == api = Idle

\* the watchlist hooks of Dashboard, the store holding `stored`
InitWatchlist(stored) ==
    /\ user = FALSE
    /\ loading = TRUE
    /\ watchlist = <<>>
    /\ records = stored
    /\ toggles = <<>>
    /\ nextRecord = 1
    /\ initPc = "idle"
    /\ outcome = "none"

InitFeed ==
    /\ signalStats = NoStats
    /\ feedLoads = 0
    /\ origin = "none"

\* the state hooks of Dashboard and the statistics of LiveSignalFeed
InitDash == InitFeed /\ InitWatchlist({})

Init ==
    /\ InitTracker
    /\ InitClassifier /\ InitSelect /\ InitCap /\ InitApi /\ InitDash

\* the live feed: market refreshes, retick passes and generateNewSignals
Next ==
    \/ Refresh
    \/ RetickStart
    \/ \E k \in 1..MaxCalls : RetickWriteOk(k)
    \/ \E k \in 1..MaxCalls : RetickWriteFails(k)
    \/ GenStart
    \/ \E g \in 1..MaxCalls : GenWriteOk(g)
    \/ \E g \in 1..MaxCalls : GenWriteFails(g)

Spec == Init /\ [][Next]_vars

\* signal generation alone: the live feed's and the dashboard's
NextGenerate ==
    \/ Refresh
    \/ GenStart
    \/ \E g \in 1..MaxCalls : GenWriteOk(g)
    \/ \E g \in 1..MaxCalls : GenWriteFails(g)
    \/ generateSignals

SpecGenerate == Init /\ [][NextGenerate]_vars

\* the selection of candidates alone
NextSelect == Select

SpecSelect == Init /\ [][NextSelect]_vars

\* classifier calls between market refreshes
NextDeterminism == Refresh \/ ClassifyCall

SpecDeterminism == Init /\ [][NextDeterminism]_vars

\* the cap of a signal list alone
NextCap == ApplyCap

SpecCap == Init /\ [][NextCap]_vars

\* the live feed with the unmount of its view
NextTeardown == Next \/ Unmount

SpecTeardown == Init /\ [][NextTeardown]_vars

\* the rows loaded by the mount effect under market refreshes and retick
\* passes
NextLoad ==
    \/ loadSignals
    \/ Refresh
    \/ RetickStart
    \/ \E k \in 1..MaxCalls : RetickWriteOk(k)
    \/ \E k \in 1..MaxCalls : RetickWriteFails(k)

SpecLoad == Init /\ [][NextLoad]_vars

\* market loads of the dashboard, manual and timed
NextRefresh ==
    \/ refreshData
    \/ autoRefresh
    \/ FetchOk
    \/ FetchFails
    \/ BackoffDone
    \/ LoadCryptosDone

SpecRefresh == Init /\ [][NextRefresh]_vars

\* the watchlist alone, over the records of earlier sessions
InitWatch ==
    /\ InitTracker
    /\ InitClassifier /\ InitSelect /\ InitCap /\ InitApi /\ InitFeed
    /\ \E stored \in StoredWatch : InitWatchlist(stored)

NextWatch ==
    \/ initDashboard
    \/ MeOk
    \/ WatchListOk
    \/ WatchLoadFails
    \/ \E symbol \in WatchSymbols : toggleWatchlist(symbol)
    \/ \E k \in 1..MaxToggles :
          ToggleListOk(k) \/ ToggleDeleteOk(k) \/ ToggleCreateOk(k) \/ ToggleFails(k)

SpecWatch == InitWatch /\ [][NextWatch]_vars

\* the classifier alone
InitClassify ==
    /\ InitTracker
    /\ cIn \in ClassifyInputs
    /\ cOut = NoResult
    /\ calls = {}
    /\ InitSelect /\ InitCap /\ InitApi /\ InitDash

NextClassify == Classify

SpecClassify == InitClassify /\ [][NextClassify]_vars

\* the market-data request alone; every awaited fetch and backoff timer
\* settles
NextFetch == ApiCall \/ FetchOk \/ FetchFails \/ BackoffDone \/ ApiReturn

SpecFetch == Init /\ [][NextFetch]_vars /\ WF_vars(ApiStep)

(***************************************************************************)
(* Claims.                                                                 *)
(***************************************************************************)

\* ---- C1 ----------------------------------------------------------------
\* The rows of the decision table, each with the negation of the rows above
\* it (first match wins), on the classifier's input.
RowPct == cIn.priceChangePercentage24h
RowHighVolume == cIn.volume24h * 10 > cIn.marketCap
RowStrongBuy == RowPct > 5 /\ RowHighVolume
RowBuy == ~RowStrongBuy /\ RowPct > 2
RowStrongSell == ~RowStrongBuy /\ ~RowBuy /\ RowPct < 0 - 5 /\ RowHighVolume
RowSell == ~RowStrongBuy /\ ~RowBuy /\ ~RowStrongSell /\ RowPct < 0 - 2
RowHold == ~RowStrongBuy /\ ~RowBuy /\ ~RowStrongSell /\ ~RowSell

\* C1: for every 24h change, volume and market cap the classifier returns the
\* row of the decision table that matches first: BUY/STRONG/85, BUY/MODERATE/70,
\* SELL/STRONG/80, SELL/MODERATE/65, else HOLD/60 with MODERATE iff |pct| > 1.
ClassifierFollowsTable ==
    cOut.signal # "none" =>
        /\ RowStrongBuy =>
              cOut = [signal |-> "BUY", strength |-> "STRONG", confidence |-> 85]
        /\ RowBuy =>
              cOut = [signal |-> "BUY", strength |-> "MODERATE", confidence |-> 70]
        /\ RowStrongSell =>
              cOut = [signal |-> "SELL", strength |-> "STRONG", confidence |-> 80]
        /\ RowSell =>
              cOut = [signal |-> "SELL", strength |-> "MODERATE", confidence |-> 65]
        /\ RowHold =>
              /\ cOut.signal = "HOLD" /\ cOut.confidence = 60
              /\ cOut.strength = IF RowPct > 1 \/ RowPct < 0 - 1
                                 THEN "MODERATE" ELSE "WEAK"

\* a change above 5% on low volume falls through to the second row
ClassifierFallsThrough ==
    /\ cOut.signal # "none"
    /\ RowPct > 5 /\ ~RowHighVolume
    /\ cOut.strength = "MODERATE"

\* ---- C2 ----------------------------------------------------------------
\* C2: once a signal's open flag is false, no later step sets it to true.
ClosedNeverReopens ==
    [][\A i \in 1..Len(signals) : \A j \in 1..Len(signals') :
          (signals'[j].id = signals[i].id /\ ~signals[i].isActive)
              => ~signals'[j].isActive]_vars

\* ---- C3 ----------------------------------------------------------------
\* C3: the price a signal's performance is measured against is the price it
\* was created with, in every state.
EntryPriceNeverChanges ==
    \A i \in 1..Len(signals) : signals[i].currentPrice = entry[signals[i].id]

\* ---- C4 ----------------------------------------------------------------
\* C4: the performance of an open BUY signal is (p - entry) / entry * 100 and
\* of an open SELL signal (entry - p) / entry * 100, entry being the price at
\* creation and p the price of the latest retick applied to it.
PerformanceFromEntry ==
    \A i \in 1..Len(signals) :
        LET s == signals[i]
            e == entry[s.id]
            p == s.currentPrice
        IN  (s.isActive /\ s.updatedAt # s.createdAt) =>
                s.performancePercentage =
                    IF s.signalType = "BUY" THEN Percent(p - e, e)
                    ELSE Percent(e - p, e)

\* ---- C5 ----------------------------------------------------------------
TargetCrossed(s, p) ==
    /\ s.targetPrice # Undefined
    /\ \/ s.signalType = "BUY" /\ p >= s.targetPrice
       \/ s.signalType = "SELL" /\ p <= s.targetPrice

StopCrossed(s, p) ==
    /\ s.stopLoss # Undefined
    /\ \/ s.signalType = "BUY" /\ p <= s.stopLoss
       \/ s.signalType = "SELL" /\ p >= s.stopLoss

Outcome(s, p) ==
    IF TargetCrossed(s, p) THEN "hit_target"
    ELSE IF StopCrossed(s, p) THEN "hit_stop_loss"
    ELSE "active"

CloseToasts(s, p) ==
    IF Outcome(s, p) = "active" THEN {}
    ELSE {[kind |-> Outcome(s, p), id |-> s.id]}

NoHoldMinted ==
    /\ \A i \in 1..Len(signals) : signals[i].signalType \in {"BUY", "SELL"}
    /\ \A i \in 1..Len(dashSignals) : dashSignals[i].signalType \in {"BUY", "SELL"}

\* C6, amended: every signal that the live feed's generateNewSignals makes
\* (appended to its list, or still held by a call in flight) has kind BUY or
\* SELL; the dashboard's generateSignals keeps the classifier's kind, HOLD
\* included, and such a signal has neither target nor stop-loss.
LiveFeedNeverMintsHold ==
    /\ \A i \in 1..Len(signals) : signals[i].signalType \in {"BUY", "SELL"}
    /\ \A g \in 1..Len(gens) :
          /\ gens[g].pending.signalType \in {"BUY", "SELL"}
          /\ \A i \in 1..Len(gens[g].newSignals) :
                gens[g].newSignals[i].signalType \in {"BUY", "SELL"}
    /\ \A i \in 1..Len(dashSignals) :
          dashSignals[i].signalType = "HOLD" =>
              /\ dashSignals[i].targetPrice = Undefined
              /\ dashSignals[i].stopLoss = Undefined

\* both generate actions have run on a list with a HOLD candidate (ADA): the
\* live feed left it out, the dashboard minted it
HoldOnlyOnDashboard ==
    /\ Len(signals) = 2
    /\ \E i \in 1..Len(dashSignals) : dashSignals[i].signalType = "HOLD"

\* ---- C7 ----------------------------------------------------------------
\* C7: when a write of a retick pass fails, the pass is not aborted: no open
\* signal of the pass whose symbol is found is left unevaluated.
WriteFailureNeverAborts ==
    [][\A k \in 1..Len(passes) :
          RetickWriteFails(k) =>
              SkipAbsent(Tail(passes[k].queue), passes[k].cs) = <<>>]_vars

\* ---- C8 ----------------------------------------------------------------
\* C8: at most one callback (retick pass or generate) is under way at any
\* time: none is dispatched while another is suspended in an await.
AtMostOneCallback == Len(passes) + Len(gens) <= 1

\* ---- C9 ----------------------------------------------------------------
ActiveFound(cs) ==
    {i \in 1..Len(signals) :
        signals[i].isActive /\ FindIdx(cs, signals[i].symbol) # 0}

AbsentUntouched(cs) ==
    \A i \in 1..Len(signals) :
        FindIdx(cs, signals[i].symbol) = 0 =>
            /\ Len(signals') = Len(signals) /\ signals'[i] = signals[i]
            /\ \A t \in toasts' : t.id # signals[i].id

\* C9: a retick step leaves every signal whose symbol is absent from the
\* pass's snapshot list as it was (open flag, performance, price, timestamps)
\* and emits no toast for it, and a pass that starts goes on to the first
\* open signal whose symbol is found, whatever absent ones come before it.
AbsentSignalUnchanged ==
    [][/\ \A k \in 1..Len(passes) : RetickWriteOk(k) => AbsentUntouched(passes[k].cs)
       /\ RetickStart =>
             /\ AbsentUntouched(PriceView(cryptos))
             /\ ActiveFound(PriceView(cryptos)) # {} =>
                   /\ Len(passes') = Len(passes) + 1
                   /\ \E i \in ActiveFound(PriceView(cryptos)) :
                         /\ \A j \in ActiveFound(PriceView(cryptos)) : i <= j
                         /\ Head(passes'[Len(passes')].queue).id = signals[i].id]_vars

\* a pass is under way for a signal that comes after an open signal whose
\* symbol is absent from the pass's snapshot list
PassWentPastAbsent ==
    \E k \in 1..Len(passes) : \E i \in 1..Len(signals) : \E j \in 1..Len(signals) :
        /\ i < j
        /\ signals[i].isActive
        /\ FindIdx(passes[k].cs, signals[i].symbol) = 0
        /\ signals[j].id = Head(passes[k].queue).id

\* ---- C10 ---------------------------------------------------------------
\* C10: no signal gets a second close toast, and once no pass is under way a
\* signal that got a close toast is closed.
OneCloseNotification ==
    \A i \in 1..Len(signals) :
        /\ NotesOf(signals[i].id) <= 1
        /\ (passes = <<>> /\ NotesOf(signals[i].id) > 0) => ~signals[i].isActive

FetchBounded ==
    /\ api.attempts <= 3
    /\ \E n \in 0..2 : api.waits = SubSeq(<<1000, 2000>>, 1, n)
    /\ api.ret.source = "fallback" =>
          api.attempts = 3 /\ api.waits = <<1000, 2000>>

FallbackOnFailure ==
    /\ api.fetched = [k \in 1..Len(api.fetched) |-> k]
    /\ api.pc = "done" =>
          IF Len(api.fetched) < api.page
          THEN api.ret = [source |-> "fallback", length |-> 5]
          ELSE /\ api.ret.source = "api"
               /\ api.limit > 250 =>
                     /\ api.ret.length <= api.limit
                     /\ api.ret.length = Min(api.results, api.limit)

\* the first page of a paged call came, the second failed, and the call
\* returned the sample
SecondPageFailed ==
    /\ api.pc = "done"
    /\ api.results > 0
    /\ api.page = 2
    /\ api.ret.source = "fallback"

\* ---- C13 ---------------------------------------------------------------
\* the signals the live feed has made, in its list or held by a call in flight
LiveMade ==
    {signals[i] : i \in 1..Len(signals)}
        \cup {gens[g].pending : g \in 1..Len(gens)}
        \cup UNION {{gens[g].newSignals[i] : i \in 1..Len(gens[g].newSignals)} :
                       g \in 1..Len(gens)}

DashMade == {dashSignals[i] : i \in 1..Len(dashSignals)}

\* target = entry * (1 +- u) and stop = entry * (1 -+ v), u and v in percent
\* within [uLo, uHi] and [vLo, vHi]
InRange(s, uLo, uHi, vLo, vHi) ==
    LET e == s.currentPrice
    IN  /\ s.signalType = "BUY" =>
              /\ (100 + uLo) * e <= 100 * s.targetPrice
              /\ 100 * s.targetPrice <= (100 + uHi) * e
              /\ (100 - vHi) * e <= 100 * s.stopLoss
              /\ 100 * s.stopLoss <= (100 - vLo) * e
              /\ s.stopLoss < e /\ e < s.targetPrice
        /\ s.signalType = "SELL" =>
              /\ (100 - uHi) * e <= 100 * s.targetPrice
              /\ 100 * s.targetPrice <= (100 - uLo) * e
              /\ (100 + vLo) * e <= 100 * s.stopLoss
              /\ 100 * s.stopLoss <= (100 + vHi) * e
              /\ s.targetPrice < e /\ e < s.stopLoss

\* C13: every BUY or SELL signal that a generate action mints has its target
\* 3% to 15% and its stop-loss 2% to 8% away from the entry price, on the
\* favourable and the adverse side.
TargetStopInRange ==
    \A s \in LiveMade \cup DashMade : InRange(s, 3, 15, 2, 8)

\* C13, amended: a signal of the live feed has its target 3% to 15% and its
\* stop-loss 2% to 8% from the entry price; a signal of the dashboard has its
\* target 5% to 20% and its stop-loss 2% to 10% from it; in both, stop <
\* entry < target for BUY and target < entry < stop for SELL.
TargetStopInOwnRange ==
    /\ \A s \in LiveMade : InRange(s, 3, 15, 2, 8)
    /\ \A s \in DashMade : InRange(s, 5, 20, 2, 10)

\* the dashboard has minted a BUY signal whose target is more than 15% above
\* the entry price, and the live feed a BUY signal
TargetBeyondFifteen ==
    /\ \E s \in DashMade :
          s.signalType = "BUY" /\ 100 * s.targetPrice > 115 * s.currentPrice
    /\ \E s \in LiveMade : s.signalType = "BUY"

\* ---- C14 ---------------------------------------------------------------
\* C14: a signal made by a generate action has a target exactly when its
\* kind is not HOLD, and a stop-loss exactly when its kind is not HOLD.
TargetStopIffNotHold ==
    \A s \in LiveMade \cup DashMade :
        /\ (s.targetPrice # Undefined) <=> (s.signalType # "HOLD")
        /\ (s.stopLoss # Undefined) <=> (s.signalType # "HOLD")

\* the dashboard has minted a HOLD signal and a SELL signal, the live feed a
\* BUY signal
MintedEveryKind ==
    /\ \E s \in DashMade : s.signalType = "HOLD" /\ s.targetPrice = Undefined
    /\ \E s \in DashMade : s.signalType = "SELL" /\ s.targetPrice # Undefined
    /\ \E s \in LiveMade : s.signalType = "BUY" /\ s.stopLoss # Undefined

\* ---- C15 ---------------------------------------------------------------
\* C15: once the live feed is unmounted, no step of a callback its timers
\* had started changes the signal set or emits a toast.
SilentAfterTeardown ==
    [][~mounted => (toasts' = {} /\ signals' = signals)]_vars

\* ---- C16 ---------------------------------------------------------------
Confidence(c) == generateTechnicalSignal(c).confidence

Kind(c) == generateTechnicalSignal(c).signal

AbsChange(c) == IF c.priceChangePercentage24h < 0
                THEN 0 - c.priceChangePercentage24h
                ELSE c.priceChangePercentage24h

\* the snapshots of `list` that are not in `chosen`
LeftOut(list, chosen) ==
    {list[i] : i \in 1..Len(list)} \ {chosen[i] : i \in 1..Len(chosen)}

\* at most maxCount, none HOLD, none left out with a higher confidence
ByConfidence(list, chosen, maxCount) ==
    /\ Len(chosen) <= maxCount
    /\ \A i \in 1..Len(chosen) : Kind(chosen[i]) # "HOLD"
    /\ \A x \in LeftOut(list, chosen) : \A i \in 1..Len(chosen) :
          Confidence(x) <= Confidence(chosen[i])

\* C16: what a generate mints is at most maxCount snapshots (6 in the live
\* feed, 5 on the dashboard), none classified HOLD, and no snapshot left out
\* has a higher classifier confidence than one that is minted.
HighestConfidenceFirst ==
    picked # <<>> =>
        /\ ByConfidence(picked.list, picked.live, 6)
        /\ ByConfidence(picked.list, picked.dash, 5)

\* C16, amended: the live feed takes the (up to 6) snapshots with the largest
\* absolute 24h change and mints those of them that are not classified HOLD:
\* at most 6, none HOLD, and a snapshot left out is HOLD or has no larger
\* absolute change than any minted one.  The dashboard mints the first (up to
\* 5) snapshots in list order, whatever their kind.  Neither ranks by
\* confidence.
LargestMoveFirst ==
    picked # <<>> =>
        /\ Len(picked.live) <= 6
        /\ \A i \in 1..Len(picked.live) : Kind(picked.live[i]) # "HOLD"
        /\ \A x \in LeftOut(picked.list, picked.live) :
              \/ Kind(x) = "HOLD"
              \/ \A i \in 1..Len(picked.live) :
                     AbsChange(x) <= AbsChange(picked.live[i])
        /\ \A i \in 1..Len(picked.live) : \A j \in 1..Len(picked.live) :
              i < j => AbsChange(picked.live[i]) >= AbsChange(picked.live[j])
        /\ picked.dash = SubSeq(picked.list, 1, IF Len(picked.list) < 5
                                                THEN Len(picked.list) ELSE 5)

\* six snapshots are minted by the live feed and the one left out has a
\* higher confidence than one of them
LeftOutHigherConfidence ==
    /\ picked # <<>>
    /\ Len(picked.live) = 6
    /\ \E x \in LeftOut(picked.list, picked.live) :
          \E i \in 1..6 : Confidence(x) > Confidence(picked.live[i])

\* ---- C17 ---------------------------------------------------------------
\* C17: the list set by a generate is the new batch followed by the previous
\* list, cut to the cap; it is never longer than the cap; and every signal
\* the cut drops is older than every signal it keeps.
CapDropsOldest ==
    capIn # <<>> =>
        LET all == capIn.batch \o capIn.prev
        IN  /\ Len(capOut) <= capIn.cap
            /\ capOut = SubSeq(all, 1, IF Len(all) < capIn.cap
                                       THEN Len(all) ELSE capIn.cap)
            /\ \A i \in 1..Len(all) : \A j \in 1..Len(capOut) :
                  i > Len(capOut) => all[i].createdAt < capOut[j].createdAt

GenFailureNeverAborts ==
    [][\A g \in 1..Len(gens) :
          GenWriteFails(g) =>
              /\ Minted(Tail(gens[g].top)) = <<>>
              /\ \A i \in 1..Len(gens[g].newSignals) :
                    \E j \in 1..Len(signals') :
                        signals'[j].id = gens[g].newSignals[i].id]_vars

\* ---- C20 ---------------------------------------------------------------
\* the fields a retick must leave alone
Fixed(s) ==
    [id |-> s.id, symbol |-> s.symbol, signalType |-> s.signalType,
     strength |-> s.strength, confidenceScore |-> s.confidenceScore,
     targetPrice |-> s.targetPrice, stopLoss |-> s.stopLoss,
     createdAt |-> s.createdAt]

\* C20: a step of a retick pass changes at most the price, performance, open
\* flag and last-update stamp of a signal, keeps the list's length and order,
\* and leaves every signal that is closed, or whose symbol is not in the
\* pass's snapshot list, exactly as it was.
RetickTouchesOpenOnly ==
    [][\A k \in 1..Len(passes) :
          RetickWriteOk(k) =>
              /\ Len(signals') = Len(signals)
              /\ \A i \in 1..Len(signals) :
                    /\ Fixed(signals'[i]) = Fixed(signals[i])
                    /\ (~signals[i].isActive
                           \/ FindIdx(passes[k].cs, signals[i].symbol) = 0)
                          => signals'[i] = signals[i]]_vars

\* ---- C21 ---------------------------------------------------------------
\* C21: no two open signals of the list have the same symbol.
OneOpenPerSymbol ==
    \A i \in 1..Len(signals) : \A j \in 1..Len(signals) :
        (i # j /\ signals[i].isActive /\ signals[j].isActive)
            => signals[i].symbol # signals[j].symbol

\* ---- C22 ---------------------------------------------------------------
\* |a - b| > n for fractions a, b
FarApart(a, b, n) ==
    LET d == a[1] * b[2] - b[1] * a[2]
    IN  (IF d < 0 THEN 0 - d ELSE d) > n * a[2] * b[2]

\* the pass has just evaluated the head of its queue: a movement toast is
\* among the toasts of the step exactly when the signal stays open, its new
\* performance is beyond 5% and is more than 2 points from the performance
\* the list holds for the signal
AlertRule(pass) ==
    LET s == Head(pass.queue)
        new == Pending(pass)
        recorded == {signals'[j].performancePercentage :
                        j \in {k \in 1..Len(signals') : signals'[k].id = s.id}}
    IN  \A last \in recorded :
            ([kind |-> "movement", id |-> s.id] \in toasts')
                <=> /\ new.isActive
                    /\ FarApart(new.performancePercentage, <<0, 1>>, 5)
                    /\ FarApart(new.performancePercentage, last, 2)

\* C22: a retick pass emits a movement alert for the signal it evaluates if
\* and only if the signal stays open, the absolute value of its new
\* performance exceeds 5, and the new performance differs by more than 2
\* points from the performance recorded for the signal at the previous tick.
MovementAlertRule ==
    [][/\ (RetickStart /\ Len(passes') > Len(passes)) =>
             AlertRule(passes'[Len(passes')])
       /\ \A k \in 1..Len(passes) :
             (RetickWriteOk(k) /\ Len(passes') = Len(passes)) =>
                 AlertRule(passes'[k])]_vars

\* ---- C23 ---------------------------------------------------------------
HoldIds == {signals[i].id : i \in {j \in 1..Len(signals) : signals[j].signalType = "HOLD"}}

\* C23: a HOLD signal of the list is open and its performance is 0 whatever
\* passes have run at whatever prices, and no target or stop-loss toast is
\* emitted for it.
HoldNeverTransitions ==
    /\ \A i \in 1..Len(signals) :
          signals[i].signalType = "HOLD" =>
              /\ signals[i].isActive
              /\ signals[i].performancePercentage = <<0, 1>>
    /\ \A t \in toasts :
          t.kind \in {"hit_target", "hit_stop_loss"} => t.id \notin HoldIds

\* a pass has written a HOLD signal at a price above the target it was
\* stored with
HoldReticked ==
    \E i \in 1..Len(signals) :
        /\ signals[i].signalType = "HOLD"
        /\ signals[i].updatedAt > 0
        /\ Truthy(signals[i].targetPrice)
        /\ signals[i].currentPrice > signals[i].targetPrice

\* ---- C30 ---------------------------------------------------------------
\* C30: the statistics agree with the list: total is its length, active the
\* number of its open signals.
StatsAgree ==
    /\ signalStats.total = Len(signals)
    /\ signalStats.active = Len(SelectSeq(signals, LAMBDA x : x.isActive))

\* ---- C25 ---------------------------------------------------------------
SixResults ==
    {[signal |-> "BUY", strength |-> "STRONG", confidence |-> 85],
     [signal |-> "BUY", strength |-> "MODERATE", confidence |-> 70],
     [signal |-> "SELL", strength |-> "STRONG", confidence |-> 80],
     [signal |-> "SELL", strength |-> "MODERATE", confidence |-> 65],
     [signal |-> "HOLD", strength |-> "MODERATE", confidence |-> 60],
     [signal |-> "HOLD", strength |-> "WEAK", confidence |-> 60]}

\* C25: what the classifier returns is one of six results, and each of the
\* six is returned for some input; the confidence is within 0..100 and is
\* never the initial 50, a BUY or SELL is never WEAK and a HOLD is never
\* STRONG.
ClassifierRange ==
    /\ {generateTechnicalSignal(c) : c \in ClassifyInputs} = SixResults
    /\ cOut # NoResult =>
          /\ cOut \in SixResults
          /\ cOut.confidence \in 0..100
          /\ cOut.confidence # 50
          /\ cOut.signal \in {"BUY", "SELL"} => cOut.strength # "WEAK"
          /\ cOut.signal = "HOLD" => cOut.strength # "STRONG"

\* the last branch has returned for a change of less than 1%
HoldWeakReturned ==
    /\ cOut = [signal |-> "HOLD", strength |-> "WEAK", confidence |-> 60]
    /\ Abs(cIn.priceChangePercentage24h) <= HoldModeratePct

\* ---- C26 ---------------------------------------------------------------
\* C26: a step of generateNewSignals leaves the list of market snapshots as
\* it was, in order and content.
GenerateKeepsSnapshots ==
    [][(GenStart \/ \E g \in 1..MaxCalls : (GenWriteOk(g) \/ GenWriteFails(g)))
            => cryptos' = cryptos]_vars

\* ---- C24 ---------------------------------------------------------------
FailureToasts(ts) == {t \in ts : t.kind \in {"refresh_failed", "auto_refresh_failed"}}

\* C24: when a load that fell back to the sample settles, a failure toast is
\* emitted if and only if the load was started by the manual refresh.
FallbackNotifiesManualOnly ==
    [][(LoadCryptosDone /\ api.ret.source = "fallback")
            => (FailureToasts(toasts') # {} <=> origin = "manual")]_vars

\* ---- C27 ---------------------------------------------------------------
\* C27: the in-memory watchlist holds no symbol twice.
WatchlistNoDuplicates ==
    \A i \in 1..Len(watchlist) : \A j \in 1..Len(watchlist) :
        i # j => watchlist[i] # watchlist[j]

\* ---- C28 ---------------------------------------------------------------
\* C28: when the watchlist has been loaded and no toggleWatchlist call and
\* no load is in flight, the in-memory watchlist and the records of the
\* store hold the same set of symbols.
WatchlistMatchesStore ==
    (initPc = "loaded" /\ toggles = <<>>)
        => {watchlist[i] : i \in 1..Len(watchlist)} = {r.symbol : r \in records}

\* ---- C29 ---------------------------------------------------------------
\* C29: a step in which the persistence call of a toggle rejects leaves the
\* watchlist as it was and emits the error toast; a toggle made while no
\* user is set changes neither the watchlist nor the store and puts no call
\* in flight.
ToggleFailureKeepsWatchlist ==
    [][/\ \A k \in 1..MaxToggles :
             ToggleFails(k) =>
                 /\ watchlist' = watchlist
                 /\ \E t \in toasts' : t.kind = "watchlist_failed"
       /\ \A symbol \in WatchSymbols :
             (toggleWatchlist(symbol) /\ ~user) =>
                 UNCHANGED <<watchlist, records, toggles>>]_vars

\* the delete call of a removal has just been rejected
DeleteRejected ==
    /\ outcome = "failed"
    /\ toasts = ToggleCatch
    /\ watchlist # <<>>
    /\ \E i \in 1..Len(watchlist) : \E r \in records : r.symbol = watchlist[i]

====
